---- MODULE Spec2Model ----
(***************************************************************************)
(* A model of gee-cache: the lru store (package lru), the consistent-hash  *)
(* ring (package consistenthash), the single-flight coalescer (package     *)
(* singleflight), the Group controller with its cache wrapper (package     *)
(* geecache), the HTTPPool peer picker and a cluster of nodes that forward *)
(* a Get to one another.  Each subsystem has its own variables and its own *)
(* specification; the variables of the other subsystems stay at their      *)
(* initial values.                                                         *)
(***************************************************************************)
EXTENDS Integers, Sequences, FiniteSets, TLC

VARIABLES
    \* ---- package lru: one lru.Cache ----
    lru,        \* the Cache struct: maxBytes, nbytes, ll (front first), cache (keys of the map)
    lruHung,    \* TRUE when Add's eviction loop can never leave (the call never returns)
    touched,    \* history: the keys in the order of their last successful Get or Add
    lastOp,     \* history: the last completed operation and the keys it evicted
    \* ---- package consistenthash: one Map ----
    ring,       \* the Map struct: keys (the hash list) and hashMap
    ringPanic,  \* TRUE once a call on the Map has panicked
    ringNodes,  \* history: the nodes added and not removed since
    ringHist,   \* history: the last Add of one node, the Map before it, the Remove after it
    ringLast,   \* history: the last call on the Map, its node and the Map before it
    \* ---- package singleflight: one Group and the goroutines calling Do ----
    sfMu,       \* g.mu: 0 when free, else the goroutine that holds it
    sfM,        \* g.m: whether the map has been made, and the map from key to call
    sfCalls,    \* the call structs allocated so far: wg (its counter), val, err
    sfPc,       \* where each goroutine is in Do
    sfKey,      \* the key each goroutine passed to Do
    sfC,        \* the local variable c of each goroutine (0 when unset)
    sfRet,      \* what Do returned to each goroutine
    sfExec,     \* history: for each call, the results the executions of fn under it returned
    \* ---- package geecache: one Group, the goroutines calling Get and RegisterPeers ----
    mainCache,  \* g.mainCache: whether lru has been made, lru, cacheBytes
    peers,      \* g.peers: 0 for nil, else the picker registered (named by its registrar)
    gPc,        \* where each goroutine is in Get or in RegisterPeers
    gKey,       \* the key each goroutine passed to Get
    gVal,       \* the bytes a goroutine holds between getter.Get and populateCache
    gRet,       \* what Get returned to each goroutine: val, err
    gSrc,       \* history: where the returned value came from
    gPeerRes,   \* history: what the peer fetch of this Get returned
    gOriginRes, \* history: what the origin loader returned to this Get
    gOrigin,    \* history: the <<key, bytes>> pairs the origin loader has returned
    \* ---- HTTPPool: one pool and the goroutines calling Set and PickPeer ----
    pool,       \* the HTTPPool struct: self, basePath, peers (the ring), httpGetters
    poolMu,     \* p.mu: 0 when free, else the goroutine that holds it
    poolPc,     \* where each goroutine is in Set
    poolArg,    \* the peer list each goroutine in Set was called with
    poolSet,    \* history: the peer list of the last Set that returned
    poolPick,   \* history: the last PickPeer call, its key, what it returned, the Set calls before it
    poolPanic,  \* TRUE once a call on the pool has panicked
    \* ---- a cluster of nodes and one key that a Get asks for ----
    clPools,    \* the HTTPPool of each node
    clLists,    \* history: the peer list each node's pool was Set with
    clCached,   \* the nodes whose mainCache holds the key
    clKey,      \* the key
    clAt,       \* the node whose Group is serving Get(key) now
    clPc,       \* "get" while Get(key) is being served, "local" once a node loads it locally
    clHops      \* history: the times the request went from a node to a peer

lruVars == <<lru, lruHung, touched, lastOp>>
ringVars == <<ring, ringPanic, ringNodes, ringHist, ringLast>>
sfVars == <<sfMu, sfM, sfCalls, sfPc, sfKey, sfC, sfRet, sfExec>>
grpVars == <<mainCache, peers, gPc, gKey, gVal, gRet, gSrc, gPeerRes, gOriginRes, gOrigin>>

poolVars == <<pool, poolMu, poolPc, poolArg, poolSet, poolPick, poolPanic>>
clVars == <<clPools, clLists, clCached, clKey, clAt, clPc, clHops>>
httpVars == <<poolVars, clVars>>

vars == <<lruVars, ringVars, sfVars, grpVars, httpVars>>

NIL == "nil"

(***************************************************************************)
(* Helpers on sequences.                                                   *)
(***************************************************************************)
Range(s) == {s[i] : i \in DOMAIN s}

RECURSIVE SumLen(_)
SumLen(s) == IF s = <<>> THEN 0 ELSE Len(Head(s)) + SumLen(Tail(s))

\* the position of x in s, 0 when absent
PosOf(s, x) == IF \E i \in DOMAIN s : s[i] = x
               THEN CHOOSE i \in DOMAIN s : s[i] = x
               ELSE 0

Without(s, x) == SelectSeq(s, LAMBDA e : e # x)

(***************************************************************************)
(* package lru                                                             *)
(***************************************************************************)
LruKeys   == {"a", "b", "cc"}
LruValues == {"", "v", "vvv"}

\* the largest byte budget a Cache is constructed with
MaxBudget == 5
\* nbytes is an int64 that the operations can drive up or down without
\* limit; the model stops at this distance from zero
MaxCounter == 7

\* New(maxBytes, onEvicted)
New(maxBytes) == [maxBytes |-> maxBytes, nbytes |-> 0, ll |-> <<>>, cache |-> {}]

\* the list element the map holds for key
ElementOf(c, key) == CHOOSE i \in DOMAIN c.ll : c.ll[i].key = key

\* list.MoveToFront
MoveToFront(ll, i) == <<ll[i]>> \o SubSeq(ll, 1, i - 1) \o SubSeq(ll, i + 1, Len(ll))

\* Cache.Get with the MoveToFront left out
CacheGetNoMove(c, key) ==
    IF key \in c.cache
    THEN [c |-> c, value |-> c.ll[ElementOf(c, key)].value, ok |-> TRUE]
    ELSE [c |-> c, value |-> NIL, ok |-> FALSE]

\* Cache.Get: the cache after the call and the (value, ok) it returns
CacheGet(c, key) ==
    IF key \in c.cache
    THEN LET ele == ElementOf(c, key)
         IN  [c |-> [c EXCEPT !.ll = MoveToFront(c.ll, ele)],
              value |-> c.ll[ele].value, ok |-> TRUE]
    ELSE [c |-> c, value |-> NIL, ok |-> FALSE]

\* Cache.RemoveOldest
CacheRemoveOldest(c) ==
    IF c.ll = <<>>
    THEN c
    ELSE LET kv == c.ll[Len(c.ll)]
         IN  [c EXCEPT !.ll = SubSeq(c.ll, 1, Len(c.ll) - 1),
                       !.cache = @ \ {kv.key},
                       !.nbytes = @ - (Len(kv.key) + Len(kv.value))]

\* the for loop that ends Cache.Add; hung when the loop condition stays true
\* on an empty list (RemoveOldest changes nothing then)
RECURSIVE EvictLoop(_)
EvictLoop(c) ==
    IF c.maxBytes # 0 /\ c.maxBytes < c.nbytes
    THEN IF c.ll = <<>>
         THEN [c |-> c, hung |-> TRUE]
         ELSE EvictLoop(CacheRemoveOldest(c))
    ELSE [c |-> c, hung |-> FALSE]

\* the branch of Cache.Add for a key the map holds: the entry's value is
\* replaced first, and the counter then adds value.Len() - kv.value.Len()
\* read from the entry as it is after the replacement
AddPresent(c, key, value) ==
    LET ele == ElementOf(c, key)
        ll1 == MoveToFront(c.ll, ele)
        kv  == [ll1[1] EXCEPT !.value = value]
    IN  [c EXCEPT !.ll = <<kv>> \o Tail(ll1),
                  !.nbytes = @ + Len(value) - Len(kv.value)]

\* the branch of Cache.Add for a new key
AddAbsent(c, key, value) ==
    [c EXCEPT !.ll = <<[key |-> key, value |-> value]>> \o @,
              !.cache = @ \cup {key},
              !.nbytes = @ + Len(key) + Len(value)]

\* Cache.Add
CacheAdd(c, key, value) ==
    EvictLoop(IF key \in c.cache THEN AddPresent(c, key, value)
                                 ELSE AddAbsent(c, key, value))

\* Cache.Len
CacheLen(c) == Len(c.ll)

KeysOf(c) == {c.ll[i].key : i \in DOMAIN c.ll}

InCounterRange(n) == -MaxCounter <= n /\ n <= MaxCounter

LruInitVars ==
    /\ lruHung = FALSE
    /\ touched = <<>>
    /\ lastOp = [op |-> "none", key |-> NIL, evicted |-> {}]

LruIdle == lru = New(0) /\ LruInitVars

Touch(key) == Without(touched, key) \o <<key>>

LruGet(key) ==
    /\ ~lruHung
    /\ LET r == CacheGet(lru, key)
       IN  /\ lru' = r.c
           /\ touched' = IF r.ok THEN Touch(key) ELSE touched
           /\ lastOp' = [op |-> "Get", key |-> key, evicted |-> {}]
    /\ UNCHANGED <<lruHung, ringVars, sfVars, grpVars, httpVars>>

LruAdd(key, value) ==
    /\ ~lruHung
    /\ LET r == CacheAdd(lru, key, value)
       IN  /\ InCounterRange(r.c.nbytes)
           /\ lru' = r.c
           /\ lruHung' = r.hung
           /\ touched' = Touch(key)
           /\ lastOp' = [op |-> "Add", key |-> key,
                         evicted |-> (KeysOf(lru) \cup {key}) \ KeysOf(r.c)]
    /\ UNCHANGED <<ringVars, sfVars, grpVars, httpVars>>

LruRemoveOldest ==
    /\ ~lruHung
    /\ LET c == CacheRemoveOldest(lru)
       IN  /\ InCounterRange(c.nbytes)
           /\ lru' = c
           /\ lastOp' = [op |-> "RemoveOldest", key |-> NIL,
                         evicted |-> KeysOf(lru) \ KeysOf(c)]
    /\ UNCHANGED <<lruHung, touched, ringVars, sfVars, grpVars, httpVars>>

(***************************************************************************)
(* package consistenthash                                                  *)
(*                                                                         *)
(* Strings are sequences of decimal digits.  The Hash handed to New is the *)
(* one that reads its argument as a decimal number, so that "02" and "002" *)
(* are two names with one hash.                                            *)
(***************************************************************************)
\* New(replicas, fn): the number of virtual nodes of a real node
Replicas == 2
\* the longest hash list the model lets Add build
MaxHashes == 6

RingNodeNames == {<<2>>, <<4>>, <<6>>, <<0, 2>>}
RingQueryKeys == {<<1>>, <<3>>, <<1, 3>>, <<9, 9, 9>>}

\* strconv.Itoa
RECURSIVE Itoa(_)
Itoa(i) == IF i < 10 THEN <<i>> ELSE Itoa(i \div 10) \o <<i % 10>>

\* m.hash, a Hash (uint32) converted to int: the strings of the model have at
\* most four digits, so that the number read never reaches 2^32
RECURSIVE DecimalOf(_)
DecimalOf(data) ==
    IF data = <<>> THEN 0
    ELSE DecimalOf(SubSeq(data, 1, Len(data) - 1)) * 10 + data[Len(data)]

Hash(data) == DecimalOf(data)

\* int(m.hash([]byte(strconv.Itoa(i) + key)))
VirtualHash(i, key) == Hash(Itoa(i) \o key)

\* sort.Ints
RECURSIVE InsertSorted(_, _)
InsertSorted(s, x) ==
    IF s = <<>> THEN <<x>>
    ELSE IF x <= Head(s) THEN <<x>> \o s
    ELSE <<Head(s)>> \o InsertSorted(Tail(s), x)

RECURSIVE SortInts(_)
SortInts(s) == IF s = <<>> THEN <<>> ELSE InsertSorted(SortInts(Tail(s)), Head(s))

\* sort.Search(len(a), func(i) { return a[i] >= x }), which is sort.SearchInts(a, x):
\* the binary search between the 0-based bounds i and j
RECURSIVE SearchFrom(_, _, _, _)
SearchFrom(a, x, i, j) ==
    IF i < j
    THEN LET h == (i + j) \div 2
         IN  IF ~(a[h + 1] >= x) THEN SearchFrom(a, x, h + 1, j)
                                 ELSE SearchFrom(a, x, i, h)
    ELSE i

SearchInts(a, x) == SearchFrom(a, x, 0, Len(a))

\* m.hashMap[h], the zero value "" for a missing key
NoNode == <<>>
HashMapAt(hashMap, h) == IF h \in DOMAIN hashMap THEN hashMap[h] ELSE NoNode

\* hashMap[h] = key
HashMapPut(hashMap, h, key) ==
    [x \in DOMAIN hashMap \cup {h} |-> IF x = h THEN key ELSE hashMap[x]]

\* delete(hashMap, h)
HashMapDelete(hashMap, h) == [x \in DOMAIN hashMap \ {h} |-> hashMap[x]]

\* consistenthash.New
NewMap == [keys |-> <<>>, hashMap |-> <<>>]

\* the inner loop of Map.Add for one key, from replica i on
RECURSIVE AddReplicas(_, _, _)
AddReplicas(m, key, i) ==
    IF i < Replicas
    THEN LET hash == VirtualHash(i, key)
         IN  AddReplicas([keys |-> Append(m.keys, hash),
                          hashMap |-> HashMapPut(m.hashMap, hash, key)], key, i + 1)
    ELSE m

\* the outer loop of Map.Add
RECURSIVE AddKeys(_, _)
AddKeys(m, keys) ==
    IF keys = <<>> THEN m
    ELSE AddKeys(AddReplicas(m, Head(keys), 0), Tail(keys))

\* Map.Add
MapAdd(m, keys) ==
    LET m1 == AddKeys(m, keys)
    IN  [m1 EXCEPT !.keys = SortInts(m1.keys)]

\* Map.Get
MapGet(m, key) ==
    IF Len(m.keys) = 0
    THEN NoNode
    ELSE LET hash == Hash(key)
             idx  == SearchFrom(m.keys, hash, 0, Len(m.keys))
         IN  HashMapAt(m.hashMap, m.keys[(idx % Len(m.keys)) + 1])

\* Map.Remove with the delete(m.hashMap, hash) left out
RECURSIVE RemoveFromKeepsMapping(_, _, _)
RemoveFromKeepsMapping(m, key, i) ==
    IF i < Replicas
    THEN LET hash == VirtualHash(i, key)
             idx  == SearchInts(m.keys, hash)
         IN  IF idx + 1 > Len(m.keys)
             THEN [m |-> m, panic |-> TRUE]
             ELSE RemoveFromKeepsMapping(
                      [keys |-> SubSeq(m.keys, 1, idx)
                                \o SubSeq(m.keys, idx + 2, Len(m.keys)),
                       hashMap |-> m.hashMap],
                      key, i + 1)
    ELSE [m |-> m, panic |-> FALSE]

\* Map.Remove, from replica i on: the Map it leaves and whether it panicked.
\* m.keys[idx+1:] panics (slice bounds out of range) when idx = len(m.keys)
RECURSIVE RemoveFrom(_, _, _)
RemoveFrom(m, key, i) ==
    IF i < Replicas
    THEN LET hash == VirtualHash(i, key)
             idx  == SearchInts(m.keys, hash)
         IN  IF idx + 1 > Len(m.keys)
             THEN [m |-> m, panic |-> TRUE]
             ELSE RemoveFrom([keys |-> SubSeq(m.keys, 1, idx)
                                       \o SubSeq(m.keys, idx + 2, Len(m.keys)),
                              hashMap |-> HashMapDelete(m.hashMap, hash)],
                             key, i + 1)
    ELSE [m |-> m, panic |-> FALSE]

\* Map.Remove
MapRemove(m, key) == RemoveFrom(m, key, 0)

RingInitVars ==
    /\ ring = NewMap
    /\ ringPanic = FALSE
    /\ ringNodes = {}
    /\ ringHist = [phase |-> "none", node |-> NoNode, pre |-> NewMap, removed |-> FALSE]
    /\ ringLast = [op |-> "none", key |-> NoNode, pre |-> NewMap]

\* the arguments of the Add calls: no, one or two node names
RingAddArgs == {<<>>} \cup {<<n>> : n \in RingNodeNames}
                      \cup {<<n, k>> : n \in RingNodeNames, k \in RingNodeNames}

RingAdd(keys) ==
    /\ ~ringPanic
    /\ Len(ring.keys) + Replicas * Len(keys) <= MaxHashes
    /\ ring' = MapAdd(ring, keys)
    /\ ringNodes' = ringNodes \cup Range(keys)
    /\ ringHist' = IF Len(keys) = 1
                   THEN [ringHist EXCEPT !.phase = "added", !.node = keys[1], !.pre = ring]
                   ELSE [ringHist EXCEPT !.phase = "none", !.node = NoNode, !.pre = NewMap]
    /\ ringLast' = [op |-> "Add", key |-> NoNode, pre |-> NewMap]
    /\ UNCHANGED <<ringPanic, lruVars, sfVars, grpVars, httpVars>>

RingRemove(key) ==
    /\ ~ringPanic
    /\ LET r == MapRemove(ring, key)
       IN  /\ ring' = r.m
           /\ ringPanic' = r.panic
    /\ ringNodes' = ringNodes \ {key}
    /\ ringHist' = IF ringHist.phase = "added" /\ ringHist.node = key /\ ~ringHist.removed
                   THEN [ringHist EXCEPT !.phase = "removed", !.removed = TRUE]
                   ELSE [phase |-> "none", node |-> NoNode, pre |-> NewMap, removed |-> TRUE]
    /\ ringLast' = [op |-> "Remove", key |-> key, pre |-> ring]
    /\ UNCHANGED <<lruVars, sfVars, grpVars, httpVars>>

(***************************************************************************)
(* package singleflight                                                    *)
(*                                                                         *)
(* Every goroutine calls Do once.  A goroutine at "fn" is executing its    *)
(* fn; the other places are the statements of Do between which another    *)
(* goroutine can run.                                                      *)
(***************************************************************************)
\* the number of goroutines that call Do
NCallers == 3

SfCallers == 1 .. NCallers
SfKeys == {"k1", "k2"}
\* the (value, error) pairs a fn can return
SfResults == {[val |-> "v1", err |-> NIL], [val |-> "v2", err |-> "e2"]}

\* the nil map that g.m is before the first Do, and make(map[string]*call)
NilMap == [made |-> FALSE, at |-> <<>>]
MakeMap == [made |-> TRUE, at |-> <<>>]

\* new(call)
NewCall == [wg |-> 0, val |-> NIL, err |-> NIL]

SfInitVars ==
    /\ sfMu = 0
    /\ sfM = NilMap
    /\ sfCalls = <<>>
    /\ sfPc = [t \in SfCallers |-> "idle"]
    /\ sfKey = [t \in SfCallers |-> NIL]
    /\ sfC = [t \in SfCallers |-> 0]
    /\ sfRet = [t \in SfCallers |-> [val |-> NIL, err |-> NIL]]
    /\ sfExec = <<>>

\* a goroutine calls Do(key, fn) and passes its first statement, g.mu.Lock()
DoCall(t, key) ==
    /\ sfPc[t] = "idle"
    /\ sfMu = 0
    /\ sfMu' = t
    /\ sfPc' = [sfPc EXCEPT ![t] = "check"]
    /\ sfKey' = [sfKey EXCEPT ![t] = key]
    /\ UNCHANGED <<sfM, sfCalls, sfC, sfRet, sfExec, lruVars, ringVars, grpVars, httpVars>>

\* g.mu.Lock() before the delete
DoLock(t) ==
    /\ sfPc[t] = "lock2"
    /\ sfMu = 0
    /\ sfMu' = t
    /\ sfPc' = [sfPc EXCEPT ![t] = "delete"]
    /\ UNCHANGED <<sfM, sfCalls, sfKey, sfC, sfRet, sfExec, lruVars, ringVars, grpVars, httpVars>>

\* the lookup with the test of g.m[key] left out: every caller is a first caller
DoCheckNoLookup(t) ==
    /\ sfPc[t] = "check"
    /\ sfM' = IF ~sfM.made THEN MakeMap ELSE sfM
    /\ sfPc' = [sfPc EXCEPT ![t] = "new"]
    /\ UNCHANGED <<sfMu, sfCalls, sfKey, sfC, sfRet, sfExec, lruVars, ringVars, grpVars, httpVars>>

\* the lazy make of g.m and the lookup: if c, ok := g.m[key]; ok
DoCheck(t) ==
    /\ sfPc[t] = "check"
    /\ LET m == IF ~sfM.made THEN MakeMap ELSE sfM
       IN  /\ sfM' = m
           /\ IF sfKey[t] \in DOMAIN m.at
              THEN /\ sfC' = [sfC EXCEPT ![t] = m.at[sfKey[t]]]
                   /\ sfPc' = [sfPc EXCEPT ![t] = "unlockW"]
              ELSE /\ sfC' = sfC
                   /\ sfPc' = [sfPc EXCEPT ![t] = "new"]
    /\ UNCHANGED <<sfMu, sfCalls, sfKey, sfRet, sfExec, lruVars, ringVars, grpVars, httpVars>>

\* c := new(call); c.wg.Add(1); g.m[key] = c
DoNew(t) ==
    /\ sfPc[t] = "new"
    /\ sfCalls' = Append(sfCalls, [NewCall EXCEPT !.wg = @ + 1])
    /\ sfExec' = Append(sfExec, <<>>)
    /\ sfC' = [sfC EXCEPT ![t] = Len(sfCalls) + 1]
    /\ sfM' = [sfM EXCEPT !.at = [k \in DOMAIN sfM.at \cup {sfKey[t]} |->
                                     IF k = sfKey[t] THEN Len(sfCalls) + 1 ELSE sfM.at[k]]]
    /\ sfPc' = [sfPc EXCEPT ![t] = "unlockE"]
    /\ UNCHANGED <<sfMu, sfKey, sfRet, lruVars, ringVars, grpVars, httpVars>>

\* g.mu.Unlock(): of the waiter before it waits, of the first caller before fn
DoUnlock(t) ==
    /\ sfPc[t] \in {"unlockW", "unlockE"}
    /\ sfMu' = 0
    /\ sfPc' = [sfPc EXCEPT ![t] = IF sfPc[t] = "unlockW" THEN "wait" ELSE "fn"]
    /\ UNCHANGED <<sfM, sfCalls, sfKey, sfC, sfRet, sfExec, lruVars, ringVars, grpVars, httpVars>>

\* the waiter with the c.wg.Wait() left out
DoWaitNoBarrier(t) ==
    /\ sfPc[t] = "wait"
    /\ sfRet' = [sfRet EXCEPT ![t] = [val |-> sfCalls[sfC[t]].val,
                                      err |-> sfCalls[sfC[t]].err]]
    /\ sfPc' = [sfPc EXCEPT ![t] = "done"]
    /\ UNCHANGED <<sfMu, sfM, sfCalls, sfKey, sfC, sfExec, lruVars, ringVars, grpVars, httpVars>>

\* c.wg.Wait(); return c.val, c.err
DoWait(t) ==
    /\ sfPc[t] = "wait"
    /\ sfCalls[sfC[t]].wg = 0
    /\ sfRet' = [sfRet EXCEPT ![t] = [val |-> sfCalls[sfC[t]].val,
                                      err |-> sfCalls[sfC[t]].err]]
    /\ sfPc' = [sfPc EXCEPT ![t] = "done"]
    /\ UNCHANGED <<sfMu, sfM, sfCalls, sfKey, sfC, sfExec, lruVars, ringVars, grpVars, httpVars>>

\* c.val, c.err = fn(): fn returns r
DoFnReturn(t, r) ==
    /\ sfPc[t] = "fn"
    /\ sfCalls' = [sfCalls EXCEPT ![sfC[t]].val = r.val, ![sfC[t]].err = r.err]
    /\ sfExec' = [sfExec EXCEPT ![sfC[t]] = Append(@, r)]
    /\ sfPc' = [sfPc EXCEPT ![t] = "wgDone"]
    /\ UNCHANGED <<sfMu, sfM, sfKey, sfC, sfRet, lruVars, ringVars, grpVars, httpVars>>

\* the first caller's epilogue with the c.wg.Done() left out
DoWgDoneForgets(t) ==
    /\ sfPc[t] = "wgDone"
    /\ sfPc' = [sfPc EXCEPT ![t] = "lock2"]
    /\ UNCHANGED <<sfMu, sfM, sfCalls, sfKey, sfC, sfRet, sfExec, lruVars, ringVars, grpVars, httpVars>>

\* c.wg.Done()
DoWgDone(t) ==
    /\ sfPc[t] = "wgDone"
    /\ sfCalls' = [sfCalls EXCEPT ![sfC[t]].wg = @ - 1]
    /\ sfPc' = [sfPc EXCEPT ![t] = "lock2"]
    /\ UNCHANGED <<sfMu, sfM, sfKey, sfC, sfRet, sfExec, lruVars, ringVars, grpVars, httpVars>>

\* the first caller's epilogue with the delete(g.m, key) left out
DoDeleteKeepsEntry(t) ==
    /\ sfPc[t] = "delete"
    /\ sfPc' = [sfPc EXCEPT ![t] = "unlock2"]
    /\ UNCHANGED <<sfMu, sfM, sfCalls, sfKey, sfC, sfRet, sfExec, lruVars, ringVars, grpVars, httpVars>>

\* delete(g.m, key)
DoDelete(t) ==
    /\ sfPc[t] = "delete"
    /\ sfM' = [sfM EXCEPT !.at = [k \in DOMAIN sfM.at \ {sfKey[t]} |-> sfM.at[k]]]
    /\ sfPc' = [sfPc EXCEPT ![t] = "unlock2"]
    /\ UNCHANGED <<sfMu, sfCalls, sfKey, sfC, sfRet, sfExec, lruVars, ringVars, grpVars, httpVars>>

\* g.mu.Unlock() after the delete, and return c.val, c.err of the first caller
DoReturn(t) ==
    /\ sfPc[t] = "unlock2"
    /\ sfMu' = 0
    /\ sfRet' = [sfRet EXCEPT ![t] = [val |-> sfCalls[sfC[t]].val,
                                      err |-> sfCalls[sfC[t]].err]]
    /\ sfPc' = [sfPc EXCEPT ![t] = "done"]
    /\ UNCHANGED <<sfM, sfCalls, sfKey, sfC, sfExec, lruVars, ringVars, grpVars, httpVars>>

(***************************************************************************)
(* package geecache: the cache wrapper and the Group controller            *)
(*                                                                         *)
(* cache.get and cache.add hold c.mu from their first statement to their   *)
(* last and call nothing that blocks, so each is one step.  PickPeer, the  *)
(* peer's Get and the origin getter's Get are calls out of the package:    *)
(* their results are inputs.                                               *)
(***************************************************************************)
\* the number of goroutines; each calls Group.Get or Group.RegisterPeers once
NGoroutines == 3
\* the byte budget NewGroup is given, when it is not 0
GroupCacheBytes == 4

Goroutines == 1 .. NGoroutines
GroupKeys == {"", "a", "b"}
OriginBytes == {"v", "www"}
PeerBytes == {"v", "pp"}
OriginErrors == {"eo1", "eo2"}
PeerErrors == {"ep"}
ErrKeyRequired == "key is required"

NoResult == [called |-> FALSE, val |-> NIL, err |-> NIL]
Result(val, err) == [called |-> TRUE, val |-> val, err |-> err]
\* the results of a call that returns (bytes, error)
Results(bytes, errors) == {Result(b, NIL) : b \in bytes} \cup {Result(NIL, e) : e \in errors}

\* cache{cacheBytes: cacheBytes}
NewCache(cacheBytes) == [made |-> FALSE, lru |-> New(0), cacheBytes |-> cacheBytes]

\* cache.add
MainCacheAdd(c, key, value) ==
    LET lru0 == IF ~c.made THEN New(c.cacheBytes) ELSE c.lru
    IN  [c EXCEPT !.made = TRUE, !.lru = CacheAdd(lru0, key, value).c]

\* cache.get: the cache after the call and the (value, ok) it returns
MainCacheGet(c, key) ==
    IF ~c.made
    THEN [c |-> c, value |-> NIL, ok |-> FALSE]
    ELSE LET r == CacheGet(c.lru, key)
         IN  [c |-> [c EXCEPT !.lru = r.c], value |-> r.value, ok |-> r.ok]

GroupInitVars ==
    /\ mainCache = NewCache(0)
    /\ peers = 0
    /\ gPc = [t \in Goroutines |-> "idle"]
    /\ gKey = [t \in Goroutines |-> NIL]
    /\ gVal = [t \in Goroutines |-> NIL]
    /\ gRet = [t \in Goroutines |-> NoResult]
    /\ gSrc = [t \in Goroutines |-> "none"]
    /\ gPeerRes = [t \in Goroutines |-> NoResult]
    /\ gOriginRes = [t \in Goroutines |-> NoResult]
    /\ gOrigin = {}

\* Get returns (val, err) to goroutine t
Returns(t, val, err, src) ==
    /\ gRet' = [gRet EXCEPT ![t] = Result(val, err)]
    /\ gSrc' = [gSrc EXCEPT ![t] = src]
    /\ gPc' = [gPc EXCEPT ![t] = "done"]

\* Group.Get up to the call of g.load: the test of the key and mainCache.get
GetCall(t, key) ==
    /\ gPc[t] = "idle"
    /\ gKey' = [gKey EXCEPT ![t] = key]
    /\ IF key = ""
       THEN /\ Returns(t, NIL, ErrKeyRequired, "none")
            /\ UNCHANGED mainCache
       ELSE LET r == MainCacheGet(mainCache, key)
            IN  /\ mainCache' = r.c
                /\ IF r.ok
                   THEN Returns(t, r.value, NIL, "cache")
                   ELSE /\ gPc' = [gPc EXCEPT ![t] = "load"]
                        /\ UNCHANGED <<gRet, gSrc>>
    /\ UNCHANGED <<peers, gVal, gPeerRes, gOriginRes, gOrigin, lruVars, ringVars, sfVars, httpVars>>

\* Group.load up to the peer fetch: the test of g.peers and g.peers.PickPeer(key),
\* which answers ok or not
Load(t, ok) ==
    /\ gPc[t] = "load"
    /\ gPc' = [gPc EXCEPT ![t] = IF peers # 0 /\ ok THEN "getFromPeer" ELSE "getLocally"]
    /\ UNCHANGED <<mainCache, peers, gKey, gVal, gRet, gSrc, gPeerRes, gOriginRes, gOrigin,
                   lruVars, ringVars, sfVars, httpVars>>

\* getFromPeer with a load that puts the peer's bytes into the cache
GetFromPeerPopulates(t, res) ==
    /\ gPc[t] = "getFromPeer"
    /\ gPeerRes' = [gPeerRes EXCEPT ![t] = res]
    /\ IF res.err = NIL
       THEN /\ Returns(t, res.val, NIL, "peer")
            /\ mainCache' = MainCacheAdd(mainCache, gKey[t], res.val)
       ELSE /\ gPc' = [gPc EXCEPT ![t] = "getLocally"]
            /\ UNCHANGED <<gRet, gSrc, mainCache>>
    /\ UNCHANGED <<peers, gKey, gVal, gOriginRes, gOrigin, lruVars, ringVars, sfVars, httpVars>>

\* getFromPeer with a load that returns the peer's error
GetFromPeerReturnsError(t, res) ==
    /\ gPc[t] = "getFromPeer"
    /\ gPeerRes' = [gPeerRes EXCEPT ![t] = res]
    /\ IF res.err = NIL
       THEN Returns(t, res.val, NIL, "peer")
       ELSE Returns(t, NIL, res.err, "none")
    /\ UNCHANGED <<mainCache, peers, gKey, gVal, gOriginRes, gOrigin,
                   lruVars, ringVars, sfVars, httpVars>>

\* Group.getFromPeer and what load does with its result: peer.Get returns res
GetFromPeer(t, res) ==
    /\ gPc[t] = "getFromPeer"
    /\ gPeerRes' = [gPeerRes EXCEPT ![t] = res]
    /\ IF res.err = NIL
       THEN Returns(t, res.val, NIL, "peer")
       ELSE /\ gPc' = [gPc EXCEPT ![t] = "getLocally"]
            /\ UNCHANGED <<gRet, gSrc>>
    /\ UNCHANGED <<mainCache, peers, gKey, gVal, gOriginRes, gOrigin,
                   lruVars, ringVars, sfVars, httpVars>>

\* Group.getLocally up to populateCache: g.getter.Get(key) returns res
GetLocally(t, res) ==
    /\ gPc[t] = "getLocally"
    /\ gOriginRes' = [gOriginRes EXCEPT ![t] = res]
    /\ IF res.err # NIL
       THEN /\ Returns(t, NIL, res.err, "origin")
            /\ UNCHANGED <<gVal, gOrigin>>
       ELSE /\ gVal' = [gVal EXCEPT ![t] = res.val]
            /\ gOrigin' = gOrigin \cup {<<gKey[t], res.val>>}
            /\ gPc' = [gPc EXCEPT ![t] = "populateCache"]
            /\ UNCHANGED <<gRet, gSrc>>
    /\ UNCHANGED <<mainCache, peers, gKey, gPeerRes, lruVars, ringVars, sfVars, httpVars>>

\* Group.populateCache and the return of getLocally
PopulateCache(t) ==
    /\ gPc[t] = "populateCache"
    /\ mainCache' = MainCacheAdd(mainCache, gKey[t], gVal[t])
    /\ Returns(t, gVal[t], NIL, "origin")
    /\ UNCHANGED <<peers, gKey, gVal, gPeerRes, gOriginRes, gOrigin,
                   lruVars, ringVars, sfVars, httpVars>>

\* Group.RegisterPeers: the test of g.peers, which panics when it is set
RegisterPeersCheck(t) ==
    /\ gPc[t] = "idle"
    /\ gPc' = [gPc EXCEPT ![t] = IF peers # 0 THEN "panic" ELSE "assign"]
    /\ UNCHANGED <<mainCache, peers, gKey, gVal, gRet, gSrc, gPeerRes, gOriginRes,
                   gOrigin, lruVars, ringVars, sfVars, httpVars>>

\* Group.RegisterPeers: g.peers = peers
RegisterPeersAssign(t) ==
    /\ gPc[t] = "assign"
    /\ peers' = t
    /\ gPc' = [gPc EXCEPT ![t] = "registered"]
    /\ UNCHANGED <<mainCache, gKey, gVal, gRet, gSrc, gPeerRes, gOriginRes,
                   gOrigin, lruVars, ringVars, sfVars, httpVars>>

(***************************************************************************)
(* HTTPPool: the PeerPicker over HTTP                                      *)
(*                                                                         *)
(* Set and PickPeer hold p.mu from their first statement to their deferred *)
(* Unlock.  Set is modelled statement by statement, PickPeer, which only   *)
(* reads, as one step taken when the mutex is free.  The ring of the pool  *)
(* is a consistenthash.Map as modelled above: Replicas stands in for       *)
(* defaultReplicas and Hash for crc32.ChecksumIEEE.                        *)
(***************************************************************************)
\* the goroutines calling Set and PickPeer on one pool
NPoolCallers == 2
PoolCallers == 1 .. NPoolCallers

\* peer addresses, and the argument lists of Set
PoolNames == {<<2>>, <<4>>}
PoolPeerLists == {<<>>} \cup {<<n>> : n \in PoolNames}
                        \cup {<<n, k>> : n \in PoolNames, k \in PoolNames}

defaultBasePath == "/_geecache/"

\* a nil PeerGetter
NilGetter == [isNil |-> TRUE, baseURL |-> <<>>]
\* &httpGetter{baseURL: peer + p.basePath}
HttpGetter(peer, basePath) == [isNil |-> FALSE, baseURL |-> <<peer, basePath>>]

\* NewHTTPPool(self): peers and httpGetters are left nil
NewHTTPPool(self) ==
    [self        |-> self,
     basePath    |-> defaultBasePath,
     peers       |-> [made |-> FALSE, m |-> NewMap],
     httpGetters |-> [made |-> FALSE, at |-> <<>>]]

\* p.httpGetters[peer], the zero value nil for a missing key or a nil map
GettersAt(httpGetters, peer) ==
    IF peer \in DOMAIN httpGetters.at THEN httpGetters.at[peer] ELSE NilGetter

\* Set: p.peers = consistenthash.New(defaultReplicas, nil); p.peers.Add(peers...)
SetPeers(p, peerList) ==
    [p EXCEPT !.peers = [made |-> TRUE, m |-> MapAdd(NewMap, peerList)]]

\* Set: p.httpGetters = make(...) and the loop that fills it
SetGetters(p, peerList) ==
    [p EXCEPT !.httpGetters =
        [made |-> TRUE,
         at   |-> [x \in Range(peerList) |-> HttpGetter(x, p.basePath)]]]

\* HTTPPool.Set from its Lock to its Unlock
PoolSet(p, peerList) == SetGetters(SetPeers(p, peerList), peerList)

\* PickPeer without the test peer != p.self
PickPeerNoSelfTest(p, key) ==
    IF ~p.peers.made
    THEN [panic |-> TRUE, getter |-> NilGetter, ok |-> FALSE]
    ELSE LET peer == MapGet(p.peers.m, key)
         IN  IF peer # NoNode
             THEN [panic |-> FALSE, getter |-> GettersAt(p.httpGetters, peer), ok |-> TRUE]
             ELSE [panic |-> FALSE, getter |-> NilGetter, ok |-> FALSE]

\* HTTPPool.PickPeer between its Lock and its Unlock: p.peers.Get on the nil
\* *Map of a pool that was never Set reads m.keys through a nil pointer
PickPeer(p, key) ==
    IF ~p.peers.made
    THEN [panic |-> TRUE, getter |-> NilGetter, ok |-> FALSE]
    ELSE LET peer == MapGet(p.peers.m, key)
         IN  IF peer # NoNode /\ peer # p.self
             THEN [panic |-> FALSE, getter |-> GettersAt(p.httpGetters, peer), ok |-> TRUE]
             ELSE [panic |-> FALSE, getter |-> NilGetter, ok |-> FALSE]

\* no Set has completed
NeverSet == [set |-> FALSE, peerList |-> <<>>]
NoPick == [called |-> FALSE, key |-> <<>>,
           res |-> [panic |-> FALSE, getter |-> NilGetter, ok |-> FALSE],
           seen |-> {NeverSet}]

PoolInitVars ==
    /\ pool = NewHTTPPool(<<>>)
    /\ poolMu = 0
    /\ poolPc = [t \in PoolCallers |-> "idle"]
    /\ poolArg = [t \in PoolCallers |-> <<>>]
    /\ poolSet = NeverSet
    /\ poolPick = NoPick
    /\ poolPanic = FALSE


\* Set: p.mu.Lock()
PoolSetLock(t, peerList) ==
    /\ ~poolPanic
    /\ poolPc[t] = "idle"
    /\ poolMu = 0
    /\ poolMu' = t
    /\ poolPc' = [poolPc EXCEPT ![t] = "setPeers"]
    /\ poolArg' = [poolArg EXCEPT ![t] = peerList]
    /\ UNCHANGED <<pool, poolSet, poolPick, poolPanic, lruVars, ringVars, sfVars, grpVars, clVars>>

PoolSetPeers(t) ==
    /\ poolPc[t] = "setPeers"
    /\ pool' = SetPeers(pool, poolArg[t])
    /\ poolPc' = [poolPc EXCEPT ![t] = "setGetters"]
    /\ UNCHANGED <<poolMu, poolArg, poolSet, poolPick, poolPanic,
                   lruVars, ringVars, sfVars, grpVars, clVars>>

\* the rest of Set and the deferred p.mu.Unlock()
PoolSetGetters(t) ==
    /\ poolPc[t] = "setGetters"
    /\ pool' = SetGetters(pool, poolArg[t])
    /\ poolSet' = [set |-> TRUE, peerList |-> poolArg[t]]
    /\ poolMu' = 0
    /\ poolPc' = [poolPc EXCEPT ![t] = "idle"]
    /\ poolArg' = [poolArg EXCEPT ![t] = <<>>]
    /\ UNCHANGED <<poolPick, poolPanic, lruVars, ringVars, sfVars, grpVars, clVars>>

\* PickPeer that does not take p.mu
PoolPickPeerNoLock(t, key) ==
    /\ ~poolPanic
    /\ poolPc[t] = "idle"
    /\ LET res == PickPeer(pool, key)
       IN  /\ poolPick' = [called |-> TRUE, key |-> key, res |-> res,
                           seen |-> {poolSet}
                                    \cup {[set |-> TRUE, peerList |-> poolArg[u]] :
                                             u \in {v \in PoolCallers : poolMu = v}}]
           /\ poolPanic' = res.panic
    /\ UNCHANGED <<pool, poolMu, poolPc, poolArg, poolSet,
                   lruVars, ringVars, sfVars, grpVars, clVars>>

\* PickPeer: Lock, the lookup, the deferred Unlock
PoolPickPeer(t, key) ==
    /\ ~poolPanic
    /\ poolPc[t] = "idle"
    /\ poolMu = 0
    /\ LET res == PickPeer(pool, key)
       IN  /\ poolPick' = [called |-> TRUE, key |-> key, res |-> res, seen |-> {poolSet}]
           /\ poolPanic' = res.panic
    /\ UNCHANGED <<pool, poolMu, poolPc, poolArg, poolSet,
                   lruVars, ringVars, sfVars, grpVars, clVars>>

(***************************************************************************)
(* A cluster: nodes that each run one Group behind one HTTPPool            *)
(*                                                                         *)
(* A Get(k) that misses the cache of its node asks the node's pool for a   *)
(* peer; httpGetter.Get sends the request to the peer, whose ServeHTTP     *)
(* calls Get(k) on the peer's own Group.  The model follows one key from   *)
(* node to node.                                                           *)
(***************************************************************************)
\* the hops the model counts: the counter stays at MaxHops from there on
MaxHops == 3

\* the addresses of the nodes, the peer lists given to their pools, the keys
ClusterNodes == {<<2>>, <<4>>, <<6>>}
ClusterPeerLists == {<<>>, <<<<2>>>>, <<<<4>>>>, <<<<6>>>>,
                     <<<<2>>, <<4>>>>, <<<<2>>, <<4>>, <<6>>>>}
ClusterKeys == {<<1>>, <<3>>, <<5>>}

ClusterInitVars ==
    /\ clPools = [n \in ClusterNodes |-> NewHTTPPool(n)]
    /\ clLists = [n \in ClusterNodes |-> <<>>]
    /\ clCached = {}
    /\ clKey = <<>>
    /\ clAt = <<>>
    /\ clPc = "idle"
    /\ clHops = 0

\* Group.Get on the node the request is at: the key is in mainCache
ClusterCacheHit ==
    /\ clPc = "get"
    /\ clAt \in clCached
    /\ clPc' = "local"
    /\ UNCHANGED <<clPools, clLists, clCached, clKey, clAt, clHops,
                   lruVars, ringVars, sfVars, grpVars, poolVars>>

\* Group.load: PickPeer names a peer, httpGetter.Get reaches it and the
\* peer's ServeHTTP, its path under the peer's basePath, calls group.Get(key)
ClusterForward ==
    /\ clPc = "get"
    /\ clAt \notin clCached
    /\ LET r == PickPeer(clPools[clAt], clKey)
       IN  /\ r.ok
           /\ ~r.getter.isNil
           /\ r.getter.baseURL[1] \in ClusterNodes
           /\ r.getter.baseURL[2] = clPools[r.getter.baseURL[1]].basePath
           /\ clAt' = r.getter.baseURL[1]
    /\ clHops' = IF clHops < MaxHops THEN clHops + 1 ELSE MaxHops
    /\ UNCHANGED <<clPools, clLists, clCached, clKey, clPc,
                   lruVars, ringVars, sfVars, grpVars, poolVars>>

\* Group.load: PickPeer names a peer, the fetch fails, load goes on to getLocally
ClusterPeerFails ==
    /\ clPc = "get"
    /\ clAt \notin clCached
    /\ PickPeer(clPools[clAt], clKey).ok
    /\ clPc' = "local"
    /\ UNCHANGED <<clPools, clLists, clCached, clKey, clAt, clHops,
                   lruVars, ringVars, sfVars, grpVars, poolVars>>

\* Group.load: PickPeer names no peer, load calls getLocally
ClusterGetLocally ==
    /\ clPc = "get"
    /\ clAt \notin clCached
    /\ LET r == PickPeer(clPools[clAt], clKey)
       IN  ~r.panic /\ ~r.ok
    /\ clPc' = "local"
    /\ UNCHANGED <<clPools, clLists, clCached, clKey, clAt, clHops,
                   lruVars, ringVars, sfVars, grpVars, poolVars>>

HttpInitVars == PoolInitVars /\ ClusterInitVars

(***************************************************************************)
(* The specifications.                                                     *)
(***************************************************************************)
\* NewGroup(name, cacheBytes, getter)
Init ==
    /\ \E cacheBytes \in {0, GroupCacheBytes} : mainCache = NewCache(cacheBytes)
    /\ peers = 0
    /\ gPc = [t \in Goroutines |-> "idle"]
    /\ gKey = [t \in Goroutines |-> NIL]
    /\ gVal = [t \in Goroutines |-> NIL]
    /\ gRet = [t \in Goroutines |-> NoResult]
    /\ gSrc = [t \in Goroutines |-> "none"]
    /\ gPeerRes = [t \in Goroutines |-> NoResult]
    /\ gOriginRes = [t \in Goroutines |-> NoResult]
    /\ gOrigin = {}
    /\ LruIdle
    /\ RingInitVars
    /\ SfInitVars
    /\ HttpInitVars

Next ==
    \E t \in Goroutines :
        \/ \E key \in GroupKeys : GetCall(t, key)
        \/ \E ok \in BOOLEAN : Load(t, ok)
        \/ \E res \in Results(PeerBytes, PeerErrors) : GetFromPeer(t, res)
        \/ \E res \in Results(OriginBytes, OriginErrors) : GetLocally(t, res)
        \/ PopulateCache(t)
        \/ RegisterPeersCheck(t)
        \/ RegisterPeersAssign(t)

\* the Group controller
Spec == Init /\ [][Next]_vars

LruInit ==
    /\ \E mb \in -1 .. MaxBudget : lru = New(mb)
    /\ LruInitVars
    /\ RingInitVars
    /\ SfInitVars
    /\ GroupInitVars
    /\ HttpInitVars

LruNext ==
    \/ \E key \in LruKeys : LruGet(key)
    \/ \E key \in LruKeys, value \in LruValues : LruAdd(key, value)
    \/ LruRemoveOldest

SpecLRU == LruInit /\ [][LruNext]_vars

RingInit == RingInitVars /\ LruIdle /\ SfInitVars /\ GroupInitVars /\ HttpInitVars

RingNext ==
    \/ \E keys \in RingAddArgs : RingAdd(keys)
    \/ \E key \in RingNodeNames : RingRemove(key)

SpecRing == RingInit /\ [][RingNext]_vars

FlightInit == SfInitVars /\ LruIdle /\ RingInitVars /\ GroupInitVars /\ HttpInitVars

FlightNext ==
    \E t \in SfCallers :
        \/ \E key \in SfKeys : DoCall(t, key)
        \/ DoLock(t)
        \/ DoCheck(t)
        \/ DoNew(t)
        \/ DoUnlock(t)
        \/ DoWait(t)
        \/ \E r \in SfResults : DoFnReturn(t, r)
        \/ DoWgDone(t)
        \/ DoDelete(t)
        \/ DoReturn(t)

SpecFlight == FlightInit /\ [][FlightNext]_vars

\* the steps of goroutine t inside Do, the return of its fn among them
DoStep(t) ==
    \/ DoLock(t)
    \/ DoCheck(t)
    \/ DoNew(t)
    \/ DoUnlock(t)
    \/ DoWait(t)
    \/ \E r \in SfResults : DoFnReturn(t, r)
    \/ DoWgDone(t)
    \/ DoDelete(t)
    \/ DoReturn(t)

\* the goroutines that call Do under the fair scheduler
NFairCallers == 2
FairCallers == 1 .. NFairCallers

FlightFairNext ==
    \E t \in FairCallers :
        \/ \E key \in SfKeys : DoCall(t, key)
        \/ DoStep(t)

\* Do under a fair scheduler: a goroutine that can take a step of Do takes
\* one, and every fn returns
SpecFlightFair ==
    FlightInit /\ [][FlightFairNext]_vars /\ \A t \in FairCallers : WF_vars(DoStep(t))

PoolInit ==
    /\ \E self \in PoolNames : pool = NewHTTPPool(self)
    /\ poolMu = 0
    /\ poolPc = [t \in PoolCallers |-> "idle"]
    /\ poolArg = [t \in PoolCallers |-> <<>>]
    /\ poolSet = NeverSet
    /\ poolPick = NoPick
    /\ poolPanic = FALSE
    /\ LruIdle
    /\ RingInitVars
    /\ SfInitVars
    /\ GroupInitVars
    /\ ClusterInitVars

PoolNext ==
    \E t \in PoolCallers :
        \/ \E peerList \in PoolPeerLists : PoolSetLock(t, peerList)
        \/ PoolSetPeers(t)
        \/ PoolSetGetters(t)
        \/ \E key \in RingQueryKeys : PoolPickPeer(t, key)

\* one HTTPPool and the goroutines calling Set and PickPeer on it
SpecPool == PoolInit /\ [][PoolNext]_vars

\* every node has called Set with a peer list of its own, at most one node
\* holds the key in its cache, and one Get(key) starts at one node
ClusterInit ==
    /\ clLists \in [ClusterNodes -> ClusterPeerLists]
    /\ clPools = [n \in ClusterNodes |-> PoolSet(NewHTTPPool(n), clLists[n])]
    /\ clCached \in {{}} \cup {{n} : n \in ClusterNodes}
    /\ clKey \in ClusterKeys
    /\ clAt \in ClusterNodes
    /\ clPc = "get"
    /\ clHops = 0
    /\ LruIdle
    /\ RingInitVars
    /\ SfInitVars
    /\ GroupInitVars
    /\ PoolInitVars

ClusterNext ==
    \/ ClusterCacheHit
    \/ ClusterForward
    \/ ClusterPeerFails
    \/ ClusterGetLocally

\* the cluster: a node that can take a step of the Get it is serving takes one
SpecCluster == ClusterInit /\ [][ClusterNext]_vars /\ WF_vars(ClusterNext)

\* the bytes the cache holds: the sum over the stored entries of
\* len(key) + value.Len()
HeldBytes(c) == SumLen([i \in DOMAIN c.ll |-> c.ll[i].key])
                + SumLen([i \in DOMAIN c.ll |-> c.ll[i].value])

(***************************************************************************)
(* Claims about the Group controller, checked under Spec.                  *)
(***************************************************************************)

\* the goroutines whose Get has a load of key in progress: a peer fetch or a
\* call of the origin loader that has not returned
Loading(key) ==
    {t \in Goroutines : gKey[t] = key /\ gPc[t] \in {"getFromPeer", "getLocally"}}

\* C1: the load of a key that misses the local cache is coalesced: at most
\* one load (peer fetch or origin-loader call) of the key is in progress at
\* any time.
C1_LoadCoalesced ==
    \A key \in GroupKeys \ {""} : Cardinality(Loading(key)) <= 1

\* the entries of mainCache
CacheEntries == {mainCache.lru.ll[i] : i \in DOMAIN mainCache.lru.ll}

\* every entry of mainCache holds bytes the origin loader returned for its key
CachedFromOrigin == \A e \in CacheEntries : <<e.key, e.value>> \in gOrigin

\* the step in which a Get is answered by a successful peer fetch leaves
\* mainCache as it is
PeerAnswerKeepsCache ==
    \A t \in Goroutines :
        (gSrc[t] # "peer" /\ gSrc'[t] = "peer") => mainCache' = mainCache

\* C9: Get never populates the local cache with a value obtained from a
\* peer: every entry of mainCache for key k holds bytes the origin loader
\* returned for k, and a Get answered by a successful peer fetch leaves
\* mainCache unchanged.
C9_NoPeerValueCached == []CachedFromOrigin /\ [][PeerAnswerKeepsCache]_vars

\* a Get was answered by a peer with bytes the origin loader never returned
\* for its key, while the cache holds an entry loaded from the origin
C9_Witness ==
    \E t \in Goroutines :
        /\ gPc[t] = "done" /\ gSrc[t] = "peer"
        /\ <<gKey[t], gRet[t].val>> \notin gOrigin
        /\ CacheEntries # {}
        /\ gKey[t] \notin KeysOf(mainCache.lru)

\* a Get of a non-empty key that has returned an error returns the error the
\* origin loader returned to it, never a peer's, and has not touched the
\* cache; a Get whose peer fetch failed is at, or has passed, the call of
\* the origin loader
ErrorIsOrigins ==
    \A t \in Goroutines :
        /\ (gPc[t] = "done" /\ gKey[t] # "" /\ gRet[t].err # NIL)
              => /\ gOriginRes[t].called
                 /\ gOriginRes[t].err = gRet[t].err
                 /\ gRet[t].err \notin PeerErrors
                 /\ gVal[t] = NIL
        /\ (gPeerRes[t].called /\ gPeerRes[t].err # NIL)
              => /\ gPc[t] \in {"getLocally", "populateCache", "done"}
                 /\ gPc[t] = "done" => gOriginRes[t].called

\* the steps of a Get that ends in an error leave mainCache as it is: the
\* miss, the failed peer fetch and the return of the error
ErrorKeepsCache ==
    \A t \in Goroutines :
        (/\ gPc[t] \notin {"populateCache", "done"}
         /\ gPc'[t] # gPc[t]
         /\ gPc'[t] \in {"load", "getLocally", "done"}
         /\ gPc'[t] = "done" => (gKey'[t] # "" /\ gRet'[t].err # NIL))
            => mainCache' = mainCache

\* C10: for a Get of a non-empty key that misses the local cache, a peer
\* fetch error is never returned, the origin loader is called instead; Get
\* returns an error only when the origin loader returned one, it returns
\* that error, and the local cache is then left unchanged.
C10_OnlyOriginErrorSurfaces == []ErrorIsOrigins /\ [][ErrorKeepsCache]_vars

\* a Get whose peer fetch failed has returned the second origin error,
\* while the cache holds an entry
C10_Witness ==
    \E t \in Goroutines :
        /\ gPc[t] = "done"
        /\ gPeerRes[t].err \in PeerErrors
        /\ gRet[t].err = "eo2"
        /\ CacheEntries # {}

\* the step in which a Get returns a value obtained from the origin loader
\* leaves that value stored under its key: a Get of the key that follows at
\* once is a hit of mainCache with the same bytes
OriginValueIsHit ==
    \A t \in Goroutines :
        (gPc[t] = "populateCache" /\ gPc'[t] = "done")
            => LET r == MainCacheGet(mainCache', gKey[t])
               IN  r.ok /\ r.value = gRet'[t].val

\* C11: when Get(k) returns a value obtained from the origin loader, the
\* value has been stored under k in the local cache, so that a Get(k) that
\* follows with nothing in between is a local hit that returns the same
\* bytes.
C11_OriginValueCached == [][OriginValueIsHit]_vars

\* C12: peer registration is one-shot over every interleaving of
\* RegisterPeers calls: the peers field goes from unset to set at most once
\* and is never assigned again.
C12_PeersAssignedOnce == [][peers # 0 => peers' = peers]_vars

(***************************************************************************)
(* Claims about package lru, checked under SpecLRU.                        *)
(***************************************************************************)

\* C4: for a cache with maxBytes > 0, after every completed Add the bytes
\* actually held (the sum over the entries of len(key) + value.Len()) are
\* at most maxBytes.
C4_HeldBytesWithinBudget ==
    (lru.maxBytes > 0 /\ lastOp.op = "Add" /\ ~lruHung)
        => HeldBytes(lru) <= lru.maxBytes

\* C5: in every reachable state the counter nbytes equals the sum over the
\* stored entries of len(key) + value.Len().
C5_NbytesIsSum == lru.nbytes = HeldBytes(lru)

\* C6: eviction is least-recently-used. Every entry the last operation
\* removed was touched (by a successful Get or an Add) before every entry
\* that is still present, and a completed Add under a byte budget leaves
\* nbytes <= maxBytes.
C6_EvictsLeastRecentlyUsed ==
    /\ \A r \in lastOp.evicted : \A s \in KeysOf(lru) :
           PosOf(touched, r) < PosOf(touched, s)
    /\ \A r \in lastOp.evicted : r \notin KeysOf(lru)
    /\ (lastOp.op = "Add" /\ ~lruHung /\ lru.maxBytes # 0)
           => lru.nbytes <= lru.maxBytes

\* an Add evicted an entry and kept another one beside the entry it added
C6_Witness ==
    /\ lastOp.op = "Add"
    /\ lastOp.evicted # {}
    /\ \E s \in KeysOf(lru) : s # lastOp.key
    /\ Len(touched) = 3

\* C17: Add always terminates and evicts only while maxBytes > 0 and
\* nbytes > maxBytes: for every maxBytes (0, negative, smaller than one entry
\* included) and every key and value the eviction loop ends after finitely
\* many RemoveOldest calls, and with maxBytes = 0 nothing is ever evicted.
C17_AddTerminates ==
    /\ ~lruHung
    /\ (lastOp.op = "Add" /\ lastOp.evicted # {}) => lru.maxBytes > 0

(***************************************************************************)
(* Claims about package consistenthash, checked under SpecRing.            *)
(***************************************************************************)

\* the node that owns key by the rule: the node of the smallest virtual hash
\* >= hash(key), of the smallest virtual hash when there is none
OwnerByRule(m, key) ==
    LET ge == {i \in DOMAIN m.keys : m.keys[i] >= Hash(key)}
        at == IF ge = {} THEN 1 ELSE CHOOSE i \in ge : \A j \in ge : i <= j
    IN  HashMapAt(m.hashMap, m.keys[at])

\* C7: after any sequence of Add and Remove that leaves at least one virtual
\* hash on the ring, Get(key) returns for every key a node that is on the
\* ring (never "" and never a removed node): the node of the smallest
\* virtual hash >= hash(key), wrapping to the smallest virtual hash.
C7_GetReturnsRingNode ==
    (~ringPanic /\ Len(ring.keys) > 0)
        => \A key \in RingQueryKeys :
              /\ MapGet(ring, key) \in ringNodes
              /\ MapGet(ring, key) = OwnerByRule(ring, key)

\* C8: from a ring reached by Add calls alone, Add(n) followed by Remove(n)
\* returns the Map to its state before the Add: the same hash list and the
\* same hashMap.
C8_AddRemoveRoundTrip ==
    ringHist.phase = "removed"
        => /\ ~ringPanic
           /\ ring = ringHist.pre

\* none of the virtual hashes of node is in the hash list of m
FreshOn(m, node) ==
    \A i \in 0 .. Replicas - 1 : VirtualHash(i, node) \notin Range(m.keys)

\* C8 as amended: from a ring reached by Add calls alone, and for a node n
\* none of whose virtual hashes is in the hash list yet, Add(n) followed by
\* Remove(n) returns the Map to its state before the Add.
C8_AddRemoveRoundTripFresh ==
    (ringHist.phase = "removed" /\ FreshOn(ringHist.pre, ringHist.node))
        => /\ ~ringPanic
           /\ ring = ringHist.pre
           /\ \A key \in RingQueryKeys : MapGet(ring, key) = MapGet(ringHist.pre, key)

\* a node that was not on a ring of two other nodes has been added and removed
C8_Witness ==
    /\ ringHist.phase = "removed"
    /\ FreshOn(ringHist.pre, ringHist.node)
    /\ Cardinality(Range(ringHist.pre.keys)) >= 2 * Replicas
    /\ \E i \in DOMAIN ringHist.pre.keys :
          ringHist.pre.keys[i] > VirtualHash(0, ringHist.node)

\* the entries of the hash list that hashMap maps to node n
EntriesOf(m, n) == {i \in DOMAIN m.keys : HashMapAt(m.hashMap, m.keys[i]) = n}

\* C19: in every state of a Map reached by Add and Remove calls the hash list
\* is strictly ascending (sorted, no hash twice) and every real node added
\* and not removed has exactly replicas entries of the list mapped to it.
C19_RingInvariant ==
    /\ \A i \in DOMAIN ring.keys, j \in DOMAIN ring.keys :
           i < j => ring.keys[i] < ring.keys[j]
    /\ \A n \in ringNodes : Cardinality(EntriesOf(ring, n)) = Replicas

\* the hash-list entries of node o, in the order of the list
HashesOf(m, o) == SelectSeq(m.keys, LAMBDA h : HashMapAt(m.hashMap, h) = o)

\* C20: Remove(n) removes only the virtual nodes of n.  For every ring state
\* and every node n, one that is not on the ring included, Remove(n)
\* completes without failure and leaves the hash-list entries and the hashMap
\* entries of every other node as they were, so that every key n did not own
\* keeps its owner.
C20_RemoveOnlyOwn ==
    ringLast.op = "Remove" =>
        LET n   == ringLast.key
            pre == ringLast.pre
        IN  /\ ~ringPanic
            /\ \A o \in RingNodeNames \ {n} : HashesOf(ring, o) = HashesOf(pre, o)
            /\ \A h \in DOMAIN pre.hashMap :
                   pre.hashMap[h] # n => HashMapAt(ring.hashMap, h) = pre.hashMap[h]
            /\ \A k \in RingQueryKeys :
                   MapGet(pre, k) # n => MapGet(ring, k) = MapGet(pre, k)

(***************************************************************************)
(* Claims about package singleflight, checked under SpecFlight.            *)
(***************************************************************************)

\* the goroutines whose fn for key is executing
Executing(key) == {t \in SfCallers : sfPc[t] = "fn" /\ sfKey[t] = key}

\* C2: for every key at most one execution of fn is in progress at any
\* time, and while it is in progress the in-flight map holds its call.
C2_OneExecutionPerKey ==
    \A key \in SfKeys :
        /\ Cardinality(Executing(key)) <= 1
        /\ \A t \in Executing(key) :
              key \in DOMAIN sfM.at /\ sfM.at[key] = sfC[t]

\* a fn for a key is executing while another caller of that key waits on
\* its call and a third caller of that key holds the mutex at the lookup
C2_Witness ==
    \E t, u, w \in SfCallers :
        /\ sfPc[t] = "fn"
        /\ sfPc[u] = "wait" /\ sfKey[u] = sfKey[t] /\ sfC[u] = sfC[t]
        /\ sfPc[w] = "check" /\ sfKey[w] = sfKey[t]

\* C3: the callers that found one call in the in-flight map share one
\* execution of fn: fn ran at most once under that call, and every caller
\* that has returned holds the (value, error) pair that execution returned.
C3_CallersShareOneResult ==
    /\ \A c \in DOMAIN sfCalls :
          Len(sfExec[c]) + Cardinality({t \in SfCallers : sfC[t] = c /\ sfPc[t] = "fn"}) <= 1
    /\ \A t \in SfCallers :
          sfPc[t] = "done" => /\ Len(sfExec[sfC[t]]) = 1
                              /\ sfRet[t] = sfExec[sfC[t]][1]

\* three callers of one key have returned the result of one call, which
\* carries an error
C3_Witness ==
    \E c \in DOMAIN sfCalls :
        /\ \A t \in SfCallers : sfPc[t] = "done" /\ sfC[t] = c
        /\ sfCalls[c].err # NIL

\* a goroutine inside Do
SfActive(t) == sfPc[t] \notin {"idle", "done"}

\* no entry of the in-flight map outlives the Do calls for its key
NoIdleEntry ==
    \A k \in SfKeys :
        (\A t \in SfCallers : SfActive(t) => sfKey[t] # k) => k \notin DOMAIN sfM.at

\* a caller that finds no entry for its key installs a call of its own, runs
\* fn under it and returns what that run returned
FreshExecution ==
    \A t \in SfCallers :
        /\ (sfPc[t] = "check" /\ sfPc'[t] # "check" /\ sfKey[t] \notin DOMAIN sfM.at)
               => sfPc'[t] = "new"
        /\ (sfPc[t] = "new" /\ sfPc'[t] # "new")
               => /\ sfC'[t] = Len(sfCalls) + 1
                  /\ sfExec'[sfC'[t]] = <<>>
        /\ (sfPc[t] = "fn" /\ sfPc'[t] # "fn")
               => Len(sfExec'[sfC[t]]) = 1
        /\ (sfPc[t] = "unlock2" /\ sfPc'[t] = "done")
               => sfRet'[t] = sfExec[sfC[t]][1]

\* C15: the Group is not a result cache.  When no Do call for key k is
\* active the in-flight map has no entry for k, and a Do(k, fn) that starts
\* after the earlier execution for k returned and its entry was deleted runs
\* fn itself and returns the fresh result of that run, not the earlier one.
C15_NotAResultCache == []NoIdleEntry /\ [][FreshExecution]_vars

\* two executions for one key, one after the other, with different results:
\* the later caller has returned the later result and no entry is left
C15_Witness ==
    \E t \in SfCallers, u \in SfCallers :
        /\ sfPc[t] = "done" /\ sfPc[u] = "done"
        /\ sfKey[t] = sfKey[u]
        /\ sfC[t] < sfC[u]
        /\ sfRet[t] # sfRet[u]
        /\ sfRet[u] = sfExec[sfC[u]][1]
        /\ sfKey[u] \notin DOMAIN sfM.at

\* C16: under fair scheduling, when every fn returns, every caller of Do
\* returns: the waiters on a call's barrier are woken when the first caller
\* finishes fn, and no caller stays blocked on the mutex or the barrier.
C16_EveryCallerReturns ==
    \A t \in SfCallers : SfActive(t) ~> (sfPc[t] = "done")

\* a waiter that was blocked on the barrier of a call has returned
C16_Witness ==
    \E t \in SfCallers, u \in SfCallers :
        /\ t # u
        /\ sfC[t] = sfC[u] /\ sfC[t] # 0
        /\ sfPc[t] = "done" /\ sfPc[u] = "done"

(***************************************************************************)
(* Claims about HTTPPool, checked under SpecPool.                          *)
(***************************************************************************)
\* the ring of a pool whose last completed Set is s: no node before the
\* first Set
RingOf(s) == IF s.set THEN MapAdd(NewMap, s.peerList) ELSE NewMap

\* C13: in every state of an HTTPPool (never Set, Set with no peer, Set with
\* peers) and for every key, PickPeer returns the getter of the owner and
\* true exactly when the ring names an owner that is not the pool itself,
\* and (nil, false) otherwise; a ring of zero nodes gives no peer.
C13_PickPeerByRing ==
    poolPick.called =>
        /\ ~poolPick.res.panic
        /\ \A s \in poolPick.seen :
               LET owner == MapGet(RingOf(s), poolPick.key)
               IN  IF owner # NoNode /\ owner # pool.self
                   THEN /\ poolPick.res.ok
                        /\ poolPick.res.getter = HttpGetter(owner, pool.basePath)
                   ELSE /\ ~poolPick.res.ok
                        /\ poolPick.res.getter = NilGetter

\* the pool as it is between calls once the Set calls up to s have returned
PoolAfter(self, s) ==
    IF s.set THEN PoolSet(NewHTTPPool(self), s.peerList) ELSE NewHTTPPool(self)

\* C18: Set replaces the ring and the getter table atomically with respect to
\* PickPeer.  In every interleaving of Set and PickPeer calls a PickPeer
\* answers from the whole old peer list or from the whole new one, so that
\* whenever it returns ok = true its getter is the non-nil getter registered
\* for the owner the ring selected.
C18_SetAtomicForPickPeer ==
    poolPick.called =>
        \E s \in poolPick.seen :
            /\ poolPick.res = PickPeer(PoolAfter(pool.self, s), poolPick.key)
            /\ poolPick.res.ok =>
                   /\ ~poolPick.res.getter.isNil
                   /\ poolPick.res.getter
                          = HttpGetter(MapGet(RingOf(s), poolPick.key), pool.basePath)

\* a PickPeer has named a peer, and a later Set has replaced the ring by
\* another one and not yet the getter table
C18_Witness ==
    /\ poolPick.called
    /\ poolPick.res.ok
    /\ \E t \in PoolCallers :
           /\ poolPc[t] = "setGetters"
           /\ poolSet.set
           /\ pool.peers.m # RingOf(poolSet)

(***************************************************************************)
(* Claims about the cluster, checked under SpecCluster.                    *)
(***************************************************************************)
\* C14: whatever peer lists Set gave to the nodes, a Get(k) is not forwarded
\* from peer to peer without end: it reaches a node that loads k locally,
\* from its cache or from the origin.
C14_ReachesLocalLoad == <>(clPc = "local")

\* every node was given the same peer list
SamePeerLists == \A n \in ClusterNodes, m \in ClusterNodes : clLists[n] = clLists[m]

\* C14, amended: when Set gave every node the same peer list, a Get(k) is
\* forwarded at most once and reaches a node that loads k locally.
C14_SameListsReachLocalLoad ==
    /\ SamePeerLists => <>(clPc = "local")
    /\ [](SamePeerLists => clHops <= 1)

\* a Get that was forwarded to the owner, under one peer list for all nodes,
\* and loaded there
C14_Witness ==
    /\ SamePeerLists
    /\ clHops = 1
    /\ clPc = "local"
    /\ clAt = MapGet(clPools[clAt].peers.m, clKey)

====
